---- MODULE Spec2Model ----
(***************************************************************************)
(* A model of the Moon phase tracker (src/moon_phase_tracker.py): the      *)
(* eclipse detector, the night-window eclipse sampler, the phase and       *)
(* illumination, the rise/set extraction, the batch driver that builds one *)
(* record per day, and the binary search for a horizon crossing.           *)
(*                                                                         *)
(* Units.  Angles are integers counting 1/TicksPerDegree of a degree; the  *)
(* grid is a power of two so that every modelled elongation is a double    *)
(* the code represents exactly, and the code's floating-point comparisons  *)
(* and truncations agree with the exact rational arithmetic used here.     *)
(* The two angular radii are kept in hundredths of a degree.  Instants are *)
(* integers counting minutes of UTC since 00:00 UTC of day 0.              *)
(***************************************************************************)
EXTENDS Integers, Sequences, FiniteSets, TLC

VARIABLES
    probe,              \* arguments and return value of a function called on its own
    pc,                 \* position of the sampler / batch driver
    eph,                \* the ephemeris of the run: when and how deep opposition is
    horizon,            \* the Moon's rise/set pattern at the observer
    tz,                 \* the civil zone: its UTC offsets and its one transition
    sampler_args,       \* arguments of sample_night_for_eclipse
    night_start, night_end, current_time, sample_count,
    best_eclipse_type, best_depth, best_time,
    samples,            \* history: the instants given to check_lunar_eclipse
    sampler_ret,        \* what sample_night_for_eclipse returned
    start_date_utc, day, day_locals, eclipse_dict, records,
    placed              \* history: the eclipses the searches found, by local date

samplerVars == <<sampler_args, night_start, night_end, current_time, sample_count,
                 best_eclipse_type, best_depth, best_time, samples, sampler_ret>>
batchVars == <<start_date_utc, day, day_locals, eclipse_dict, records, placed>>
envVars == <<eph, horizon, tz>>
vars == <<probe, pc, envVars, samplerVars, batchVars>>

(***************************************************************************)
(* Bounds of the model and constants of the program.                       *)
(***************************************************************************)
TicksPerDegree == 64
EARTH_ANGULAR_RADIUS_AT_MOON == 190
SUN_ANGULAR_RADIUS_AT_MOON == 27
OPPOSITION_LIMIT_DEG == 5
max_samples == 48
ILLUMINATION_GATE == 85

HOUR == 60
DAY == 24 * HOUR

None == "None"
NoneT == 0 - 1

Abs(x) == IF x < 0 THEN 0 - x ELSE x

\* Python's int() of a quotient n/d with d > 0: truncation toward zero.
TruncDiv(n, d) == IF n >= 0 THEN n \div d ELSE 0 - ((0 - n) \div d)

(***************************************************************************)
(* check_lunar_eclipse, as a function of the elongation it reads from the  *)
(* ephemeris (in ticks).                                                   *)
(***************************************************************************)
penumbra_radius == EARTH_ANGULAR_RADIUS_AT_MOON + SUN_ANGULAR_RADIUS_AT_MOON
umbra_radius == EARTH_ANGULAR_RADIUS_AT_MOON - SUN_ANGULAR_RADIUS_AT_MOON

\* int(scale * (1 - offset / radius)), offset in ticks, radius in hundredths.
ShadowDepth(scale, offset, radius) ==
    TruncDiv(scale * (radius * TicksPerDegree - 100 * offset), radius * TicksPerDegree)

\* offset < factor2/2 * radius, offset in ticks, radius in hundredths.
InsideRadius(offset, factor2, radius) ==
    200 * offset < factor2 * radius * TicksPerDegree

\* A mutant: the Penumbral band scored with the umbral scale of 100.
ClassifyEclipsePenumbra100(offset) ==
    IF InsideRadius(offset, 1, umbra_radius)
    THEN [eclipse_type |-> "Total", shadow_depth |-> ShadowDepth(100, offset, umbra_radius), offset |-> offset]
    ELSE IF InsideRadius(offset, 2, umbra_radius)
    THEN [eclipse_type |-> "Partial", shadow_depth |-> ShadowDepth(100, offset, umbra_radius), offset |-> offset]
    ELSE IF InsideRadius(offset, 2, penumbra_radius)
    THEN [eclipse_type |-> "Penumbral", shadow_depth |-> ShadowDepth(100, offset, penumbra_radius), offset |-> offset]
    ELSE [eclipse_type |-> None, shadow_depth |-> 0, offset |-> offset]

ClassifyEclipse(offset) ==
    IF InsideRadius(offset, 1, umbra_radius)
    THEN [eclipse_type |-> "Total", shadow_depth |-> ShadowDepth(100, offset, umbra_radius), offset |-> offset]
    ELSE IF InsideRadius(offset, 2, umbra_radius)
    THEN [eclipse_type |-> "Partial", shadow_depth |-> ShadowDepth(100, offset, umbra_radius), offset |-> offset]
    ELSE IF InsideRadius(offset, 2, penumbra_radius)
    THEN [eclipse_type |-> "Penumbral", shadow_depth |-> ShadowDepth(50, offset, penumbra_radius), offset |-> offset]
    ELSE [eclipse_type |-> None, shadow_depth |-> 0, offset |-> offset]

check_lunar_eclipse(elongation) ==
    IF Abs(elongation - 180 * TicksPerDegree) > OPPOSITION_LIMIT_DEG * TicksPerDegree
    THEN [eclipse_type |-> None, shadow_depth |-> 0,
          offset |-> Abs(elongation - 180 * TicksPerDegree)]
    ELSE ClassifyEclipse(Abs(elongation - 180 * TicksPerDegree))

(***************************************************************************)
(* The collaborators the program consumes: the ephemeris, the horizon      *)
(* function of the almanac, and the civil time zone.  Each is fixed for a  *)
(* run by a parameter record chosen in the initial state.                  *)
(***************************************************************************)
Min(a, b) == IF a <= b THEN a ELSE b

\* sun_pos.separation_from(moon_pos).degrees at instant t: the Moon closes on
\* opposition and recedes from it by one degree in two hours, and passes
\* eph.min_offset ticks from exact opposition at eph.t_opp.
Elongation(t) ==
    180 * TicksPerDegree
      - Min(180 * TicksPerDegree,
            eph.min_offset + (Abs(t - eph.t_opp) * TicksPerDegree) \div (2 * HOUR))

\* Division of an integer by an integer, rounded to the nearest integer, ties
\* to even: timedelta / int, and round() where its argument is exact.
RoundHalfEven(n, d) ==
    LET q == n \div d
        r == n % d
    IN  IF 2 * r > d \/ (2 * r = d /\ q % 2 = 1) THEN q + 1 ELSE q

\* A mutant: the offset from full taken with its sign, abs() forgotten.
IlluminationOffsetSigned(elongation) == elongation - 180 * TicksPerDegree

\* abs(elongation - 180), in ticks.
IlluminationOffset(elongation) == Abs(elongation - 180 * TicksPerDegree)

\* round(illumination, 1) rounds the double it is given.  Where the exact
\* value of (1 - |elongation - 180| / 180) * 100 ends in 5 hundredths (the lit
\* arc 180 - |elongation - 180| an odd multiple of 2.25 degrees) the double is
\* not that value: it lies above it for these multiples and below it for the
\* other odd ones, and round() goes the way the double lies.
DoubleAboveTie ==
    {7, 9, 15, 17, 19, 27, 29, 35, 39, 43, 47, 49, 55, 59, 63, 67, 71, 75, 79}

\* illumination of get_lunar_phase, in tenths of a percent:
\* round((1 - abs(elongation - 180) / 180) * 100, 1).
Illumination10(elongation) ==
    LET lit == 180 * TicksPerDegree - IlluminationOffset(elongation)
        n == lit * 1000
        d == 180 * TicksPerDegree
        q == n \div d
        r == n % d
    IN  IF 2 * r > d THEN q + 1
        ELSE IF 2 * r < d THEN q
        ELSE IF (4 * lit) \div (9 * TicksPerDegree) \in DoubleAboveTie THEN q + 1
        ELSE q

\* The Moon at the observer: it rises at horizon.first_rise and every
\* LUNAR_DAY after (and before) it, and stays up horizon.up_minutes.
LUNAR_DAY == DAY + 50

above_horizon_fn(t) == ((t - horizon.first_rise) % LUNAR_DAY) < horizon.up_minutes

\* almanac.find_discrete(t0, t1, above_horizon_fn): the instants in the day at
\* which the function changes, in order, each with the value it changes to.
RECURSIVE SortedSeq(_)
SortedSeq(S) ==
    IF S = {} THEN <<>>
    ELSE LET m == CHOOSE x \in S : \A y \in S : x <= y
         IN  <<m>> \o SortedSeq(S \ {m})

find_discrete(t0, t1) ==
    LET changes == {t \in (t0 + 1)..t1 : above_horizon_fn(t) # above_horizon_fn(t - 1)}
        times == SortedSeq(changes)
    IN  [times |-> times,
         events |-> [i \in 1..Len(times) |-> IF above_horizon_fn(times[i]) THEN 1 ELSE 0]]

\* ZoneInfo('America/New_York'): the offset from UTC in force at a UTC instant.
utcoffset(t) == IF t < tz.transition THEN tz.before ELSE tz.after

\* x.astimezone(eastern).strftime('%Y-%m-%d'): the local calendar day of a
\* UTC instant, as a day number.
LocalDate(t) == (t + utcoffset(t)) \div DAY

\* x.strftime('%Y-%m-%d') of a UTC datetime: its UTC calendar day.
UtcDate(t) == t \div DAY

(***************************************************************************)
(* Values of the variables a specification does not use.                   *)
(***************************************************************************)
NoEclipse == [eclipse_type |-> None, shadow_depth |-> 0, offset |-> 0]
NoResult == [eclipse_type |-> None, depth |-> 0, time |-> NoneT]

IdleEnv ==
    /\ eph = [t_opp |-> 0, min_offset |-> 180 * TicksPerDegree]
    /\ horizon = [first_rise |-> 0, up_minutes |-> 0]
    /\ tz = [transition |-> 0, before |-> 0, after |-> 0]

IdleSampler ==
    /\ sampler_args = [date_utc |-> 0, rise_time |-> NoneT, set_time |-> NoneT,
                       moon_up_all_day |-> FALSE, moon_down_all_day |-> FALSE]
    /\ night_start = NoneT
    /\ night_end = NoneT
    /\ current_time = NoneT
    /\ sample_count = 0
    /\ best_eclipse_type = None
    /\ best_depth = 0
    /\ best_time = NoneT
    /\ samples = <<>>
    /\ sampler_ret = NoResult

IdleBatch ==
    /\ start_date_utc = 0
    /\ day = 0
    /\ day_locals = [date_utc |-> NoneT]
    /\ eclipse_dict = <<>>
    /\ records = <<>>
    /\ placed = {}

(***************************************************************************)
(* check_lunar_eclipse called on its own, on two elongations at once so    *)
(* that its results can be compared.                                       *)
(***************************************************************************)
ElongationInputs ==
    {180 * TicksPerDegree + d : d \in (0 - 6 * TicksPerDegree)..(6 * TicksPerDegree)}
      \cup {15 * k * TicksPerDegree : k \in 0..24}

ElongationSteps ==
    {0, 1, 2, 3, TicksPerDegree \div 4, TicksPerDegree, 5 * TicksPerDegree}

DetectorInit ==
    /\ \E e \in ElongationInputs : \E d \in ElongationSteps :
          /\ e + d <= 360 * TicksPerDegree
          /\ probe = [elongation |-> e, elongation_b |-> e + d, returned |-> FALSE,
                      ret |-> NoEclipse, ret_b |-> NoEclipse]
    /\ pc = "detector"
    /\ IdleEnv /\ IdleSampler /\ IdleBatch

CallDetector ==
    /\ pc = "detector"
    /\ ~probe.returned
    /\ probe' = [probe EXCEPT !.returned = TRUE,
                              !.ret = check_lunar_eclipse(probe.elongation),
                              !.ret_b = check_lunar_eclipse(probe.elongation_b)]
    /\ UNCHANGED <<pc, envVars, samplerVars, batchVars>>

DetectorNext == CallDetector

DetectorSpec == DetectorInit /\ [][DetectorNext]_vars

\* The offset from opposition of an elongation, in ticks.
OffsetOf(e) == IF e >= 180 * TicksPerDegree THEN e - 180 * TicksPerDegree
               ELSE 180 * TicksPerDegree - e

\* d = trunc(scale * (1 - off / (r/100))) for an offset inside radius r.
IsTruncDepth(d, scale, off, r) ==
    /\ d * r * TicksPerDegree <= scale * (r * TicksPerDegree - 100 * off)
    /\ scale * (r * TicksPerDegree - 100 * off) < (d + 1) * r * TicksPerDegree

\* C6: check_lunar_eclipse follows the ladder: with offset = |elongation - 180|,
\* offset < 0.815 gives Total and offset < 1.63 gives Partial, both with depth
\* trunc(100 * (1 - offset / 1.63)); offset < 2.17 gives Penumbral with depth
\* trunc(50 * (1 - offset / 2.17)); any other offset (beyond 5 degrees
\* included) gives no eclipse and depth 0.  Offset 0 is Total with depth 100
\* and every depth lies in 0..100.
C6_Ladder ==
    (pc = "detector" /\ probe.returned) =>
        LET off == OffsetOf(probe.elongation)
            r == probe.ret
        IN  /\ (1000 * off < 815 * TicksPerDegree) =>
                  r.eclipse_type = "Total" /\ IsTruncDepth(r.shadow_depth, 100, off, 163)
            /\ (1000 * off >= 815 * TicksPerDegree /\ 100 * off < 163 * TicksPerDegree) =>
                  r.eclipse_type = "Partial" /\ IsTruncDepth(r.shadow_depth, 100, off, 163)
            /\ (100 * off >= 163 * TicksPerDegree /\ 100 * off < 217 * TicksPerDegree) =>
                  r.eclipse_type = "Penumbral" /\ IsTruncDepth(r.shadow_depth, 50, off, 217)
            /\ (100 * off >= 217 * TicksPerDegree) =>
                  r.eclipse_type = None /\ r.shadow_depth = 0
            /\ (off = 0) => r.eclipse_type = "Total" /\ r.shadow_depth = 100
            /\ r.shadow_depth \in 0..100

\* A Penumbral result has been returned: the ladder's third rung was taken.
C6_Witness ==
    /\ pc = "detector" /\ probe.returned
    /\ probe.ret.eclipse_type = "Penumbral" /\ probe.ret.shadow_depth > 0
    /\ probe.ret_b.eclipse_type = "Total"

\* C7: the depth is monotone in the offset from opposition: of two offsets
\* a <= b, a is reported at least as deep as b.
C7_DepthMonotone ==
    (pc = "detector" /\ probe.returned
       /\ OffsetOf(probe.elongation) <= OffsetOf(probe.elongation_b)) =>
        probe.ret.shadow_depth >= probe.ret_b.shadow_depth

(***************************************************************************)
(* sample_night_for_eclipse.  The prologue chooses the sampling window or  *)
(* returns at once; the loop then takes one sample per step.               *)
(***************************************************************************)
\* A mutant: a day with a rise and no set is sampled from the rise for a day.
NightWindowFromRise(a) ==
    IF a.moon_down_all_day
    THEN [has |-> FALSE, start |-> NoneT, end |-> NoneT]
    ELSE IF a.moon_up_all_day
    THEN [has |-> TRUE,
          start |-> (a.date_utc \div DAY) * DAY,
          end |-> (a.date_utc \div DAY) * DAY + DAY]
    ELSE IF a.rise_time # NoneT
    THEN [has |-> TRUE,
          start |-> a.rise_time,
          end |-> IF a.set_time = NoneT THEN a.rise_time + DAY
                  ELSE IF a.set_time < a.rise_time THEN a.set_time + DAY
                  ELSE a.set_time]
    ELSE [has |-> FALSE, start |-> NoneT, end |-> NoneT]

\* The window the prologue settles on: has = FALSE stands for its two early
\* returns of (None, 0, None).
NightWindow(a) ==
    IF a.moon_down_all_day
    THEN [has |-> FALSE, start |-> NoneT, end |-> NoneT]
    ELSE IF a.moon_up_all_day
    THEN [has |-> TRUE,
          start |-> (a.date_utc \div DAY) * DAY,
          end |-> (a.date_utc \div DAY) * DAY + DAY]
    ELSE IF a.rise_time # NoneT /\ a.set_time # NoneT
    THEN [has |-> TRUE,
          start |-> a.rise_time,
          end |-> IF a.set_time < a.rise_time THEN a.set_time + DAY ELSE a.set_time]
    ELSE [has |-> FALSE, start |-> NoneT, end |-> NoneT]

\* A mutant: the loop bounded by the window alone, the sample cap forgotten.
LoopConditionNoCap(ct, ne, sc) == ct <= ne

\* A mutant: the loop bounded by the sample cap alone, the window forgotten.
LoopConditionNoEnd(ct, ne, sc) == sc < max_samples

\* while current_time <= night_end and sample_count < max_samples
LoopCondition(ct, ne, sc) == ct <= ne /\ sc < max_samples

\* A mutant: a sample as deep as the best so far replaces it.
BetterSampleOrEqual(r, bd) == r.eclipse_type # None /\ r.shadow_depth >= bd

\* if eclipse_type and depth > best_depth
BetterSample(r, bd) == r.eclipse_type # None /\ r.shadow_depth > bd

EnterSampler(a) ==
    /\ sampler_args' = a
    /\ samples' = <<>>
    /\ best_eclipse_type' = None
    /\ best_depth' = 0
    /\ best_time' = NoneT
    /\ sample_count' = 0
    /\ night_start' = NightWindow(a).start
    /\ night_end' = NightWindow(a).end
    /\ current_time' = NightWindow(a).start
    /\ sampler_ret' = NoResult
    /\ pc' = IF NightWindow(a).has THEN "sampling" ELSE "returned"

SampleIter ==
    /\ pc = "sampling"
    /\ LoopCondition(current_time, night_end, sample_count)
    /\ LET r == check_lunar_eclipse(Elongation(current_time))
           better == BetterSample(r, best_depth)
           bt == IF better THEN r.eclipse_type ELSE best_eclipse_type
           bd == IF better THEN r.shadow_depth ELSE best_depth
           bi == IF better THEN current_time ELSE best_time
       IN  /\ best_eclipse_type' = bt
           /\ best_depth' = bd
           /\ best_time' = bi
           /\ samples' = Append(samples, current_time)
           /\ current_time' = current_time + HOUR
           /\ sample_count' = sample_count + 1
           /\ IF (current_time + HOUR) - night_start > 2 * DAY
              THEN /\ pc' = "returned"
                   /\ sampler_ret' = [eclipse_type |-> bt, depth |-> bd, time |-> bi]
              ELSE /\ pc' = "sampling"
                   /\ UNCHANGED sampler_ret
    /\ UNCHANGED <<probe, envVars, sampler_args, night_start, night_end, batchVars>>

SampleExit ==
    /\ pc = "sampling"
    /\ ~LoopCondition(current_time, night_end, sample_count)
    /\ pc' = "returned"
    /\ sampler_ret' = [eclipse_type |-> best_eclipse_type, depth |-> best_depth,
                       time |-> best_time]
    /\ UNCHANGED <<probe, envVars, sampler_args, night_start, night_end, current_time,
                   sample_count, best_eclipse_type, best_depth, best_time, samples,
                   batchVars>>

(***************************************************************************)
(* sample_night_for_eclipse called on its own, with every combination of   *)
(* rise instant, set instant and flags, a far-away set instant included.   *)
(***************************************************************************)
SamplerDay == 1

SamplerRiseTimes ==
    {NoneT, SamplerDay * DAY + 6 * HOUR, SamplerDay * DAY + 18 * HOUR + 30,
     SamplerDay * DAY + 23 * HOUR}

SamplerSetTimes ==
    {NoneT, SamplerDay * DAY + 5 * HOUR, SamplerDay * DAY + 18 * HOUR,
     SamplerDay * DAY + 19 * HOUR + 10, SamplerDay * DAY + 53 * HOUR,
     SamplerDay * DAY + 106 * HOUR}

SamplerOppositions ==
    {SamplerDay * DAY + 6 * HOUR, SamplerDay * DAY + 12 * HOUR + 30,
     SamplerDay * DAY + 17 * HOUR + 40, SamplerDay * DAY + 26 * HOUR}

MinOffsets ==
    {0, TicksPerDegree \div 2, (3 * TicksPerDegree) \div 2, 3 * TicksPerDegree}

SamplerInit ==
    /\ probe = [called |-> "sample_night_for_eclipse"]
    /\ pc = "call"
    /\ \E t \in SamplerOppositions : \E m \in MinOffsets :
          eph = [t_opp |-> t, min_offset |-> m]
    /\ horizon = [first_rise |-> 0, up_minutes |-> 0]
    /\ tz = [transition |-> 0, before |-> 0, after |-> 0]
    /\ \E r \in SamplerRiseTimes : \E st \in SamplerSetTimes : \E up, down \in BOOLEAN :
          sampler_args = [date_utc |-> SamplerDay * DAY + 3 * HOUR, rise_time |-> r,
                          set_time |-> st, moon_up_all_day |-> up,
                          moon_down_all_day |-> down]
    /\ night_start = NoneT
    /\ night_end = NoneT
    /\ current_time = NoneT
    /\ sample_count = 0
    /\ best_eclipse_type = None
    /\ best_depth = 0
    /\ best_time = NoneT
    /\ samples = <<>>
    /\ sampler_ret = NoResult
    /\ IdleBatch

SamplerCall ==
    /\ pc = "call"
    /\ EnterSampler(sampler_args)
    /\ UNCHANGED <<probe, envVars, batchVars>>

SamplerNext == SamplerCall \/ SampleIter \/ SampleExit

SamplerSpec == SamplerInit /\ [][SamplerNext]_vars /\ WF_vars(SamplerNext)

\* The window the specification gives the sampler, from its arguments.
HasWindow(a) ==
    ~a.moon_down_all_day
      /\ (a.moon_up_all_day \/ (a.rise_time # NoneT /\ a.set_time # NoneT))
WindowStart(a) ==
    IF a.moon_up_all_day THEN a.date_utc - (a.date_utc % DAY) ELSE a.rise_time
WindowEnd(a) ==
    IF a.moon_up_all_day THEN a.date_utc - (a.date_utc % DAY) + 24 * HOUR
    ELSE IF a.set_time < a.rise_time THEN a.set_time + 24 * HOUR ELSE a.set_time

SampledInstants == {samples[i] : i \in 1..Len(samples)}
DetectorAt(t) == check_lunar_eclipse(Elongation(t))

\* C8: the sampler terminates, takes at most 48 samples, and samples no
\* instant more than 48 hours after the start of its window.
C8_BoundedSampling ==
    /\ <>(pc = "returned")
    /\ [](/\ Len(samples) <= 48
          /\ \A t \in SampledInstants : t - WindowStart(sampler_args) <= 48 * HOUR)

\* The cap of 48 samples, not the end of the window, has ended a search.
C8_Witness ==
    /\ pc = "returned"
    /\ Len(samples) = 48
    /\ WindowEnd(sampler_args) > WindowStart(sampler_args) + 60 * HOUR

\* C9: the sampler returns the type, depth and instant of the earliest of its
\* deepest samples, and (None, 0, None) exactly when no sample is deeper than 0.
C9_EarliestMaximum ==
    (pc = "returned") =>
        LET deep == {t \in SampledInstants : DetectorAt(t).shadow_depth > 0}
        IN  IF deep = {}
            THEN sampler_ret = NoResult
            ELSE LET m ==
                       CHOOSE d \in {DetectorAt(t).shadow_depth : t \in deep} :
                           \A t \in deep : DetectorAt(t).shadow_depth <= d
                     first ==
                       CHOOSE t \in deep :
                           /\ DetectorAt(t).shadow_depth = m
                           /\ \A u \in deep : DetectorAt(u).shadow_depth = m => t <= u
                 IN  /\ sampler_ret = [eclipse_type |-> DetectorAt(first).eclipse_type,
                                       depth |-> m, time |-> first]
                     /\ sampler_ret # NoResult

\* Two samples share the maximum depth and the earlier one was returned.
C9_Witness ==
    /\ pc = "returned"
    /\ sampler_ret.depth > 0
    /\ \E u \in SampledInstants :
          /\ u > sampler_ret.time
          /\ DetectorAt(u).shadow_depth = sampler_ret.depth

\* C10 as stated: every sampled instant lies in the half-open window
\* [start, end), at start + k hours, and none is taken at or after end; a
\* rise at 06:00 and a set at 18:00 give at most 13 samples.
C10_HalfOpenWindow ==
    /\ \A i \in 1..Len(samples) :
          /\ HasWindow(sampler_args)
          /\ samples[i] = WindowStart(sampler_args) + (i - 1) * HOUR
          /\ samples[i] >= WindowStart(sampler_args)
          /\ samples[i] < WindowEnd(sampler_args)
    /\ (sampler_args.rise_time = SamplerDay * DAY + 6 * HOUR
          /\ sampler_args.set_time = SamplerDay * DAY + 18 * HOUR
          /\ ~sampler_args.moon_up_all_day) => Len(samples) <= 13

\* C10 amended: every sampled instant lies in the closed window [start, end],
\* at start + k hours; once the sampler has returned it has sampled every
\* such instant for k < 48, the one at end itself included; a rise at 06:00
\* and a set at 18:00 give at most 13 samples.
C10_ClosedWindow ==
    /\ \A i \in 1..Len(samples) :
          /\ HasWindow(sampler_args)
          /\ samples[i] = WindowStart(sampler_args) + (i - 1) * HOUR
          /\ samples[i] >= WindowStart(sampler_args)
          /\ samples[i] <= WindowEnd(sampler_args)
    /\ (pc = "returned" /\ HasWindow(sampler_args)) =>
          SampledInstants =
              {WindowStart(sampler_args) + k * HOUR : k \in 0..47}
                 \cap (WindowStart(sampler_args)..WindowEnd(sampler_args))
    /\ (sampler_args.rise_time = SamplerDay * DAY + 6 * HOUR
          /\ sampler_args.set_time = SamplerDay * DAY + 18 * HOUR
          /\ ~sampler_args.moon_up_all_day) => Len(samples) <= 13

\* A rise at 06:00 and a set at 18:00: thirteen samples, the last at 18:00.
C10_Witness ==
    /\ pc = "returned"
    /\ sampler_args.rise_time = SamplerDay * DAY + 6 * HOUR
    /\ sampler_args.set_time = SamplerDay * DAY + 18 * HOUR
    /\ ~sampler_args.moon_up_all_day /\ ~sampler_args.moon_down_all_day
    /\ Len(samples) = 13
    /\ samples[13] = WindowEnd(sampler_args)

\* C15: when there is no sampling window (the Moon down all day, or not up
\* all day with the rise instant or the set instant absent) the sampler
\* returns (None, 0, None) and has not evaluated the detector once.
C15_NoWindowNoSearch ==
    (pc # "call"
       /\ (sampler_args.moon_down_all_day
              \/ (~sampler_args.moon_up_all_day
                    /\ (sampler_args.rise_time = NoneT \/ sampler_args.set_time = NoneT)))) =>
        /\ pc = "returned"
        /\ sampler_ret = NoResult
        /\ samples = <<>>
        /\ sample_count = 0

\* A day with a rise and no set has returned no eclipse although the Moon is
\* in eclipse at the rise instant.
C15_Witness ==
    /\ pc = "returned"
    /\ ~sampler_args.moon_down_all_day /\ ~sampler_args.moon_up_all_day
    /\ sampler_args.rise_time # NoneT /\ sampler_args.set_time = NoneT
    /\ DetectorAt(sampler_args.rise_time).eclipse_type # None
    /\ sampler_ret = NoResult
    /\ samples = <<>>

(***************************************************************************)
(* get_lunar_phase: the phase name and the illumination of an elongation.  *)
(***************************************************************************)
\* A mutant: the upper bound of a band included in it.
AtOrBelowHalfDegrees(elongation, half_degrees) ==
    2 * elongation <= half_degrees * TicksPerDegree

\* elongation < half_degrees / 2, elongation in ticks.
BelowHalfDegrees(elongation, half_degrees) ==
    2 * elongation < half_degrees * TicksPerDegree

phase_name(elongation) ==
    IF BelowHalfDegrees(elongation, 45) \/ ~BelowHalfDegrees(elongation, 675)
    THEN "New Moon"
    ELSE IF BelowHalfDegrees(elongation, 135) THEN "Waxing Crescent"
    ELSE IF BelowHalfDegrees(elongation, 225) THEN "First Quarter"
    ELSE IF BelowHalfDegrees(elongation, 315) THEN "Waxing Gibbous"
    ELSE IF BelowHalfDegrees(elongation, 405) THEN "Full Moon"
    ELSE IF BelowHalfDegrees(elongation, 495) THEN "Waning Gibbous"
    ELSE IF BelowHalfDegrees(elongation, 585) THEN "Last Quarter"
    ELSE "Waning Crescent"

\* The pair get_lunar_phase returns, from the elongation it has read.
LunarPhaseOf(elongation) ==
    [phase_name |-> phase_name(elongation),
     illumination |-> Illumination10(elongation)]

get_lunar_phase(t) == LunarPhaseOf(Elongation(t))

(***************************************************************************)
(* get_lunar_phase called on its own, on every elongation of the grid from *)
(* 0 to 360 degrees.                                                       *)
(***************************************************************************)
PhaseElongations == 0..(360 * TicksPerDegree)

PhaseInit ==
    /\ \E e \in PhaseElongations :
          probe = [elongation |-> e, returned |-> FALSE,
                   ret |-> [phase_name |-> None, illumination |-> 0]]
    /\ pc = "phase"
    /\ IdleEnv /\ IdleSampler /\ IdleBatch

CallPhase ==
    /\ pc = "phase"
    /\ ~probe.returned
    /\ probe' = [probe EXCEPT !.returned = TRUE,
                              !.ret = LunarPhaseOf(probe.elongation)]
    /\ UNCHANGED <<pc, envVars, samplerVars, batchVars>>

PhaseNext == CallPhase

PhaseSpec == PhaseInit /\ [][PhaseNext]_vars

PhaseLabels ==
    <<"New Moon", "Waxing Crescent", "First Quarter", "Waxing Gibbous",
      "Full Moon", "Waning Gibbous", "Last Quarter", "Waning Crescent">>

\* Band k is the 45 degrees centred on 45 * k degrees, its lower bound
\* included and its upper bound excluded; band 0 wraps around 0 = 360.
InBand(e, k) ==
    IF k = 0
    THEN 2 * e < 45 * TicksPerDegree \/ 2 * e >= 675 * TicksPerDegree
    ELSE /\ (90 * k - 45) * TicksPerDegree <= 2 * e
         /\ 2 * e < (90 * k + 45) * TicksPerDegree

\* C11: for every elongation in [0, 360) the label returned is the label of
\* the one band that contains the elongation, and no other; 22.5 degrees is
\* Waxing Crescent, 180 is Full Moon and 0 is New Moon.
C11_PhasePartition ==
    (pc = "phase" /\ probe.returned /\ probe.elongation < 360 * TicksPerDegree) =>
        /\ \A k \in 0..7 :
              (probe.ret.phase_name = PhaseLabels[k + 1]) <=> InBand(probe.elongation, k)
        /\ Cardinality({k \in 0..7 : InBand(probe.elongation, k)}) = 1
        /\ 2 * probe.elongation = 45 * TicksPerDegree
              => probe.ret.phase_name = "Waxing Crescent"
        /\ probe.elongation = 180 * TicksPerDegree => probe.ret.phase_name = "Full Moon"
        /\ probe.elongation = 0 => probe.ret.phase_name = "New Moon"

\* The phase of an elongation of exactly 22.5 degrees has been computed.
C11_Witness ==
    /\ pc = "phase" /\ probe.returned
    /\ 2 * probe.elongation = 45 * TicksPerDegree
    /\ probe.ret.phase_name = "Waxing Crescent"

\* C12: for every elongation in [0, 360] the illumination lies between 0 and
\* 100, is the value of (1 - |elongation - 180| / 180) * 100 to the nearest
\* tenth, is 0 at 0 and at 360 degrees and 100 at 180 degrees.
C12_IlluminationBounds ==
    (pc = "phase" /\ probe.returned) =>
        LET e == probe.elongation
            lit == IF e <= 180 * TicksPerDegree THEN e ELSE 360 * TicksPerDegree - e
        IN  /\ 0 <= probe.ret.illumination
            /\ probe.ret.illumination <= 1000
            /\ 2 * (probe.ret.illumination * 180 * TicksPerDegree - lit * 1000)
                  <= 180 * TicksPerDegree
            /\ 2 * (lit * 1000 - probe.ret.illumination * 180 * TicksPerDegree)
                  <= 180 * TicksPerDegree
            /\ e \in {0, 360 * TicksPerDegree} => probe.ret.illumination = 0
            /\ e = 180 * TicksPerDegree => probe.ret.illumination = 1000

\* The illumination of an elongation of 360 degrees has been computed.
C12_Witness ==
    /\ pc = "phase" /\ probe.returned
    /\ probe.elongation = 360 * TicksPerDegree
    /\ probe.ret.illumination = 0

(***************************************************************************)
(* get_moon_rise_set: the first rise and the first set among the day's     *)
(* transitions, and the two all-day flags.                                 *)
(***************************************************************************)
\* The loop over zip(times, events) from index i on, with its break.
RECURSIVE FirstRiseSet(_, _, _, _, _)
FirstRiseSet(times, events, i, rise_time, set_time) ==
    IF i > Len(times)
    THEN [rise_time |-> rise_time, set_time |-> set_time]
    ELSE LET rising == events[i] = 1 /\ rise_time = NoneT
             setting == ~rising /\ events[i] = 0 /\ set_time = NoneT
             r == IF rising THEN times[i] ELSE rise_time
             st == IF setting THEN times[i] ELSE set_time
         IN  IF r # NoneT /\ st # NoneT
             THEN [rise_time |-> r, set_time |-> st]
             ELSE FirstRiseSet(times, events, i + 1, r, st)

\* A mutant: up all day decided by the state at the start of the day alone.
MoonUpAllDayNoCount(is_up_at_start, times) == is_up_at_start

\* moon_up_all_day = is_up_at_start and len(times) == 0
MoonUpAllDay(is_up_at_start, times) == is_up_at_start /\ Len(times) = 0

\* A mutant: down all day decided by the state at the start of the day alone.
MoonDownAllDayNoCount(is_up_at_start, times) == ~is_up_at_start

\* moon_down_all_day = (not is_up_at_start) and len(times) == 0
MoonDownAllDay(is_up_at_start, times) == (~is_up_at_start) /\ Len(times) = 0

ExtractRiseSet(is_up_at_start, times, events) ==
    [rise_time |-> FirstRiseSet(times, events, 1, NoneT, NoneT).rise_time,
     set_time |-> FirstRiseSet(times, events, 1, NoneT, NoneT).set_time,
     moon_up_all_day |-> MoonUpAllDay(is_up_at_start, times),
     moon_down_all_day |-> MoonDownAllDay(is_up_at_start, times)]

\* get_moon_rise_set(date_str) for the UTC calendar day numbered date.
get_moon_rise_set(date) ==
    ExtractRiseSet(above_horizon_fn(date * DAY),
                   find_discrete(date * DAY, date * DAY + DAY).times,
                   find_discrete(date * DAY, date * DAY + DAY).events)

(***************************************************************************)
(* The extraction called on its own: any state at the start of the day and *)
(* any alternating sequence of up to MaxEvents transitions after it.       *)
(***************************************************************************)
MaxEvents == 3

EventMinutes == {20, 5 * HOUR, 9 * HOUR + 30, 14 * HOUR, 19 * HOUR + 15, 23 * HOUR + 50}

\* The values find_discrete reports for n transitions of a function that is
\* is_up_at_start at the start: they alternate, the first one being a change.
AlternatingEvents(is_up_at_start, n) ==
    [i \in 1..n |-> IF (i % 2 = 1) = is_up_at_start THEN 0 ELSE 1]

RiseSetInit ==
    /\ \E up \in BOOLEAN : \E S \in SUBSET EventMinutes :
          /\ Cardinality(S) <= MaxEvents
          /\ probe = [is_up_at_start |-> up, times |-> SortedSeq(S),
                      events |-> AlternatingEvents(up, Cardinality(S)),
                      returned |-> FALSE,
                      ret |-> [rise_time |-> NoneT, set_time |-> NoneT,
                               moon_up_all_day |-> FALSE, moon_down_all_day |-> FALSE]]
    /\ pc = "rise_set"
    /\ IdleEnv /\ IdleSampler /\ IdleBatch

CallRiseSet ==
    /\ pc = "rise_set"
    /\ ~probe.returned
    /\ probe' = [probe EXCEPT !.returned = TRUE,
                              !.ret = ExtractRiseSet(probe.is_up_at_start, probe.times,
                                                     probe.events)]
    /\ UNCHANGED <<pc, envVars, samplerVars, batchVars>>

RiseSetNext == CallRiseSet

RiseSetSpec == RiseSetInit /\ [][RiseSetNext]_vars

\* How many of its arguments are true.
CountTrue(a, b, c) ==
    (IF a THEN 1 ELSE 0) + (IF b THEN 1 ELSE 0) + (IF c THEN 1 ELSE 0)

\* C1: the tuple get_moon_rise_set returns satisfies exactly one of: up all
\* day; down all day; a rise or a set instant is present.  Up all day comes
\* with no rise instant, no set instant and down all day false.
C1_HorizonExclusive ==
    (pc = "rise_set" /\ probe.returned) =>
        /\ CountTrue(probe.ret.moon_up_all_day, probe.ret.moon_down_all_day,
                     probe.ret.rise_time # NoneT \/ probe.ret.set_time # NoneT) = 1
        /\ probe.ret.moon_up_all_day =>
              /\ probe.ret.rise_time = NoneT
              /\ probe.ret.set_time = NoneT
              /\ ~probe.ret.moon_down_all_day

\* The Moon was up at the start of the day, no transition was found, and the
\* function has reported it up all day.
C1_Witness ==
    /\ pc = "rise_set" /\ probe.returned
    /\ probe.is_up_at_start /\ Len(probe.times) = 0
    /\ probe.ret.moon_up_all_day

(***************************************************************************)
(* The batch driver (__main__).  One iteration of its loop is DayBegin     *)
(* (phase, rise and set, the illumination gate and the sampler's           *)
(* prologue), the sampler's loop, and DayEnd (the eclipse dictionary, the  *)
(* row of the table).  NumDays stands for the 365 of the code.             *)
(***************************************************************************)
NumDays == 5
TransitionDay == 2

\* start_date.astimezone(timezone.utc) for start_date = 23:00 local time on
\* local day d: the UTC instant whose local wall clock reads d, 23:00.
LocalAnchorToUtc(d) ==
    CHOOSE t \in {d * DAY + 23 * HOUR - tz.before, d * DAY + 23 * HOUR - tz.after} :
        t + utcoffset(t) = d * DAY + 23 * HOUR

\* A mutant: the row reads the deepest entry of the dictionary whatever its date.
EclipseForDeepestEntry(dict, current_date) ==
    IF DOMAIN dict # {}
    THEN dict[CHOOSE d \in DOMAIN dict : \A e \in DOMAIN dict : dict[e].depth <= dict[d].depth]
    ELSE [eclipse_type |-> "None", depth |-> 0, time_str |-> NoneT]

\* if current_date in eclipse_dict: ... else: "None", 0, "None"
EclipseFor(dict, current_date) ==
    IF current_date \in DOMAIN dict
    THEN dict[current_date]
    ELSE [eclipse_type |-> "None", depth |-> 0, time_str |-> NoneT]

\* if eclipse_date not in eclipse_dict or eclipse_depth > eclipse_dict[eclipse_date][1]
StoreEclipse(dict, found) ==
    IF found.time = NoneT
    THEN dict
    ELSE LET eclipse_date == LocalDate(found.time)
             entry == [eclipse_type |-> found.eclipse_type, depth |-> found.depth,
                       time_str |-> found.time + utcoffset(found.time)]
         IN  IF eclipse_date \notin DOMAIN dict \/ found.depth > dict[eclipse_date].depth
             THEN [d \in DOMAIN dict \cup {eclipse_date} |->
                      IF d = eclipse_date THEN entry ELSE dict[d]]
             ELSE dict

\* rise_str and set_str: a sentinel, or the time of day of the instant.
RiseStr(rs) ==
    IF rs.moon_up_all_day THEN [text |-> "All day", time |-> NoneT]
    ELSE IF rs.rise_time = NoneT THEN [text |-> "No rise", time |-> NoneT]
    ELSE [text |-> "%H:%M:%S UTC", time |-> rs.rise_time % DAY]

SetStr(rs) ==
    IF rs.moon_down_all_day THEN [text |-> "Down all day", time |-> NoneT]
    ELSE IF rs.set_time = NoneT THEN [text |-> "No set", time |-> NoneT]
    ELSE [text |-> "%H:%M:%S UTC", time |-> rs.set_time % DAY]

BatchStartDays == {TransitionDay - 1, TransitionDay + 1}

TimeZones ==
    {[transition |-> TransitionDay * DAY + 7 * HOUR, before |-> 0 - 5 * HOUR,
      after |-> 0 - 4 * HOUR],
     [transition |-> TransitionDay * DAY + 6 * HOUR, before |-> 0 - 4 * HOUR,
      after |-> 0 - 5 * HOUR]}

BatchOppositions == {11 * k * HOUR : k \in 2..14}

BatchMinOffsets == {0, (3 * TicksPerDegree) \div 2}

FirstRises == {220 * k : k \in 0..6}

UpMinutes == {0, 11 * HOUR + 40, LUNAR_DAY}

BatchInit ==
    /\ probe = [called |-> "__main__"]
    /\ pc = "day"
    /\ \E t \in BatchOppositions : \E m \in BatchMinOffsets :
          eph = [t_opp |-> t, min_offset |-> m]
    /\ \E r \in FirstRises : \E u \in UpMinutes :
          horizon = [first_rise |-> r, up_minutes |-> u]
    /\ tz \in TimeZones
    /\ \E d \in BatchStartDays : start_date_utc = LocalAnchorToUtc(d)
    /\ IdleSampler
    /\ day = 0
    /\ day_locals = [date_utc |-> NoneT]
    /\ eclipse_dict = <<>>
    /\ records = <<>>
    /\ placed = {}

DayBegin ==
    /\ pc = "day"
    /\ day < NumDays
    /\ LET date_utc == start_date_utc + day * DAY
           lp == get_lunar_phase(date_utc)
           rs == get_moon_rise_set(UtcDate(date_utc))
       IN  /\ day_locals' = [date_utc |-> date_utc, date_local |-> LocalDate(date_utc),
                             phase |-> lp.phase_name, illumination |-> lp.illumination,
                             rise_set |-> rs]
           /\ IF lp.illumination > ILLUMINATION_GATE * 10
              THEN EnterSampler([date_utc |-> date_utc, rise_time |-> rs.rise_time,
                                 set_time |-> rs.set_time,
                                 moon_up_all_day |-> rs.moon_up_all_day,
                                 moon_down_all_day |-> rs.moon_down_all_day])
              ELSE /\ pc' = "not sampled"
                   /\ sampler_ret' = NoResult
                   /\ samples' = <<>>
                   /\ UNCHANGED <<sampler_args, night_start, night_end, current_time,
                                  sample_count, best_eclipse_type, best_depth, best_time>>
    /\ UNCHANGED <<probe, envVars, start_date_utc, day, eclipse_dict, records, placed>>

DayEnd ==
    /\ pc \in {"returned", "not sampled"}
    /\ LET dict == StoreEclipse(eclipse_dict, sampler_ret)
           current_date == day_locals.date_local
           ecl == EclipseFor(dict, current_date)
       IN  /\ eclipse_dict' = dict
           /\ records' = Append(records,
                  [Date |-> current_date,
                   Phase |-> day_locals.phase,
                   Illumination |-> day_locals.illumination,
                   Moon_Rise |-> RiseStr(day_locals.rise_set),
                   Moon_Set |-> SetStr(day_locals.rise_set),
                   Up_All_Day |-> day_locals.rise_set.moon_up_all_day,
                   Down_All_Day |-> day_locals.rise_set.moon_down_all_day,
                   Eclipse_Type |-> ecl.eclipse_type,
                   Eclipse_Depth |-> ecl.depth,
                   Eclipse_Time |-> ecl.time_str])
    /\ placed' = IF sampler_ret.time = NoneT THEN placed
                  ELSE placed \cup {[by_day |-> day, date |-> LocalDate(sampler_ret.time),
                                     eclipse_type |-> sampler_ret.eclipse_type,
                                     depth |-> sampler_ret.depth,
                                     time_str |-> sampler_ret.time + utcoffset(sampler_ret.time)]}
    /\ day' = day + 1
    /\ pc' = IF day + 1 < NumDays THEN "day" ELSE "done"
    /\ UNCHANGED <<probe, envVars, samplerVars, start_date_utc, day_locals>>

BatchNext == DayBegin \/ SampleIter \/ SampleExit \/ DayEnd

BatchSpec == BatchInit /\ [][BatchNext]_vars

Rows == 1..Len(records)
HasTime(str) == str.text = "%H:%M:%S UTC"

\* C2 as stated: every row has exactly one of: both a rise time and a set
\* time; Up_All_Day; Down_All_Day.
C2_BothTimesOrAllDay ==
    \A i \in Rows :
        CountTrue(HasTime(records[i].Moon_Rise) /\ HasTime(records[i].Moon_Set),
                  records[i].Up_All_Day, records[i].Down_All_Day) = 1

\* C2 amended: every row has exactly one of: a rise time or a set time (one
\* of them or both); Up_All_Day; Down_All_Day.
C2_SomeTimeOrAllDay ==
    \A i \in Rows :
        CountTrue(HasTime(records[i].Moon_Rise) \/ HasTime(records[i].Moon_Set),
                  records[i].Up_All_Day, records[i].Down_All_Day) = 1

\* A row of a day whose UTC window held a rising transition and no setting one.
C2_Witness ==
    \E i \in Rows :
        /\ HasTime(records[i].Moon_Rise)
        /\ records[i].Moon_Set.text = "No set"
        /\ ~records[i].Up_All_Day /\ ~records[i].Down_All_Day

\* C3: once every day is processed, each row's eclipse fields are the entry of
\* the final eclipse dictionary for the row's own local date, which is a
\* deepest of the eclipses the searches placed on that date; a row whose date
\* has no entry carries "None" and depth 0.
C3_RowsMatchFinalDictionary ==
    (pc = "done") =>
        \A i \in Rows :
            LET r == records[i]
                on == {p \in placed : p.date = r.Date}
            IN  /\ r.Eclipse_Type = EclipseFor(eclipse_dict, r.Date).eclipse_type
                /\ r.Eclipse_Depth = EclipseFor(eclipse_dict, r.Date).depth
                /\ r.Eclipse_Time = EclipseFor(eclipse_dict, r.Date).time_str
                /\ IF on = {}
                   THEN r.Eclipse_Type = "None" /\ r.Eclipse_Depth = 0
                   ELSE \E p \in on :
                           /\ \A q \in on : q.depth <= p.depth
                           /\ r.Eclipse_Type = p.eclipse_type
                           /\ r.Eclipse_Depth = p.depth
                           /\ r.Eclipse_Time = p.time_str

\* C4: a row's eclipse type is other than "None" only if the illumination at
\* that row's own anchor instant exceeded 85%.
C4_EclipseOnlyWhenGateOpen ==
    \A i \in Rows :
        records[i].Eclipse_Type # "None" => records[i].Illumination > 850

\* A row carries an eclipse that the search of another day placed on its date.
C4_Witness ==
    \E i \in Rows : \E p \in placed :
        /\ records[i].Eclipse_Type # "None"
        /\ p.date = records[i].Date
        /\ p.time_str = records[i].Eclipse_Time
        /\ p.by_day # i - 1
        /\ \A q \in placed : q.date = p.date => q.by_day # i - 1

\* C5: the rows are one per local calendar day, in order: the Date labels of
\* consecutive rows are consecutive days, and the finished table has one row
\* per day of the range.
C5_ConsecutiveDates ==
    /\ \A i \in Rows : i + 1 \in Rows => records[i + 1].Date = records[i].Date + 1
    /\ (pc = "done") => Len(records) = NumDays

\* C13: every row carries a supermoon flag, a boolean that is true only on a
\* Full Moon row (and then exactly when the Earth-Moon distance at the anchor
\* is at most 360,000 km; the driver reads no distance, so no row can be
\* examined for that half).
C13_SupermoonFlag ==
    \A i \in Rows :
        /\ "Supermoon" \in DOMAIN records[i]
        /\ records[i].Supermoon \in BOOLEAN
        /\ records[i].Supermoon => records[i].Phase = "Full Moon"

(***************************************************************************)
(* binary_search_rise_set.  A datetime is a record of whole seconds s and  *)
(* microseconds us (0..999999) counted from 00:00:00 of the day of the     *)
(* bracket; a timedelta has the same shape.  The Moon's altitude changes   *)
(* sign once, at probe.crossing, upwards if probe.rising.                  *)
(***************************************************************************)
MICROSECONDS == 1000000

\* The normalisation of seconds and microseconds datetime arithmetic performs.
Normalized(s, us) == [s |-> s + us \div MICROSECONDS, us |-> us % MICROSECONDS]

\* a - b of two datetimes, a + w of a datetime and a timedelta.
TimeSub(a, b) == Normalized(a.s - b.s, a.us - b.us)
TimeAdd(a, w) == Normalized(a.s + w.s, a.us + w.us)

\* w / 2 of a timedelta w >= 0: to the nearest microsecond, ties to even.
TimeHalf(w) ==
    Normalized(w.s \div 2, RoundHalfEven((w.s % 2) * MICROSECONDS + w.us, 2))

TimeLeq(a, b) == a.s < b.s \/ (a.s = b.s /\ a.us <= b.us)

\* dt_start + (dt_end - dt_start) / 2
Midpoint(dt_start, dt_end) == TimeAdd(dt_start, TimeHalf(TimeSub(dt_end, dt_start)))

\* altitude >= 0 at instant t.
AltitudeNonNegative(t) ==
    IF probe.rising THEN TimeLeq(probe.crossing, t) ELSE TimeLeq(t, probe.crossing)

\* (dt_end - dt_start).total_seconds() < 0.01
BracketClosed(dt_start, dt_end) ==
    LET w == TimeSub(dt_end, dt_start)
    IN  w.s < 0 \/ (w.s = 0 /\ w.us < 10000)

MAX_HALVINGS == 20

Instant(h, m, sec, us) == [s |-> (h * 60 + m) * 60 + sec, us |-> us]

\* Brackets of one day, of five minutes, and an odd one of some hours; the
\* crossing anywhere inside, the ends and the middle included.
Brackets ==
    {[t_start |-> Instant(0, 0, 0, 0), t_end |-> Instant(24, 0, 0, 0)],
     [t_start |-> Instant(9, 35, 0, 0), t_end |-> Instant(9, 40, 0, 0)],
     [t_start |-> Instant(3, 0, 0, 250000), t_end |-> Instant(7, 20, 11, 1)]}

Crossings ==
    {Instant(0, 0, 0, 400000), Instant(3, 0, 1, 0), Instant(5, 10, 5, 500000),
     Instant(6, 0, 0, 0), Instant(7, 20, 10, 900000), Instant(9, 35, 0, 300000),
     Instant(9, 37, 30, 0), Instant(9, 38, 12, 345678), Instant(9, 39, 59, 999999),
     Instant(12, 0, 0, 0), Instant(17, 23, 45, 678901), Instant(23, 59, 59, 500000)}

BinarySearchInit ==
    /\ \E b \in Brackets : \E c \in Crossings : \E rising \in BOOLEAN :
          /\ TimeLeq(b.t_start, c) /\ TimeLeq(c, b.t_end)
          /\ probe = [t_start |-> b.t_start, t_end |-> b.t_end, crossing |-> c,
                      rising |-> rising, dt_start |-> b.t_start, dt_end |-> b.t_end,
                      halvings |-> 0, returned |-> FALSE, ret |-> b.t_start]
    /\ pc = "bisect"
    /\ IdleEnv /\ IdleSampler /\ IdleBatch

\* One pass of the body of the for loop, its break included.
BinarySearchIter ==
    /\ pc = "bisect"
    /\ probe.halvings < MAX_HALVINGS
    /\ LET mid == Midpoint(probe.dt_start, probe.dt_end)
           dt_start == IF AltitudeNonNegative(mid) THEN probe.dt_start ELSE mid
           dt_end == IF AltitudeNonNegative(mid) THEN mid ELSE probe.dt_end
       IN  /\ probe' = [probe EXCEPT !.dt_start = dt_start, !.dt_end = dt_end,
                                     !.halvings = probe.halvings + 1]
           /\ pc' = IF BracketClosed(dt_start, dt_end) THEN "bisect exit" ELSE "bisect"
    /\ UNCHANGED <<envVars, samplerVars, batchVars>>

\* The return, after the break or after the twentieth pass.
BinarySearchReturn ==
    /\ \/ pc = "bisect exit"
       \/ pc = "bisect" /\ probe.halvings = MAX_HALVINGS
    /\ probe' = [probe EXCEPT !.returned = TRUE,
                              !.ret = Midpoint(probe.dt_start, probe.dt_end)]
    /\ pc' = "bisect returned"
    /\ UNCHANGED <<envVars, samplerVars, batchVars>>

BinarySearchNext == BinarySearchIter \/ BinarySearchReturn

BinarySearchSpec == BinarySearchInit /\ [][BinarySearchNext]_vars

WithinOneSecond(a, b) ==
    LET w == IF TimeLeq(a, b) THEN TimeSub(b, a) ELSE TimeSub(a, b)
    IN  w.s = 0 \/ (w.s = 1 /\ w.us = 0)

\* C14: whether the crossing is a rising or a setting one, the search makes
\* at most 20 halvings and returns an instant inside the bracket, within one
\* second of the crossing.
C14_BisectionFindsCrossing ==
    /\ probe.halvings <= 20
    /\ (pc = "bisect returned") =>
          /\ TimeLeq(probe.t_start, probe.ret) /\ TimeLeq(probe.ret, probe.t_end)
          /\ WithinOneSecond(probe.ret, probe.crossing)

====
